---- MODULE Spec2Model ----
(***************************************************************************)
(* Text Extractor: the upload / validation / extraction pipeline of the    *)
(* browser application (FileUploader -> Home page -> useFileExtraction ->  *)
(* textExtraction), modelled as a state machine of the browser event loop. *)
(* Every action is one task of the event loop: an event handler or the     *)
(* continuation of an await, run to its next suspension point.             *)
(***************************************************************************)
EXTENDS Integers, Sequences, FiniteSets, TLC

(***************************************************************************)
(* Bounds of the model.                                                    *)
(***************************************************************************)
\* number of files the user drops or picks in one behaviour
MaxDrops == 2

\* the same, in the behaviours checked under fairness
MaxLiveDrops == 1

\* number of pages of the longest document handed to extractTextFromPDF
MaxPages == 201

(***************************************************************************)
(* Program constants.                                                      *)
(***************************************************************************)
SUPPORTED_FORMATS ==
    {"application/pdf", "image/png", "image/jpeg", "image/jpg", "image/webp"}

MAX_FILE_SIZE == 25 * 1024 * 1024

\* delay of the auto-clear timer, in milliseconds
CLEAR_DELAY == 2000

\* vertical distance above which two fragments are on different lines
LINE_BREAK_DY == 5

(***************************************************************************)
(* Nullable values are sequences of length 0 (null/undefined) or 1.        *)
(***************************************************************************)
Null == <<>>

Some(v) == <<v>>

(***************************************************************************)
(* fileValidation.ts                                                       *)
(***************************************************************************)
\* two decimal digits of n (0..99), zero padded
TwoDigits(n) == IF n < 10 THEN "0" \o ToString(n) ELSE ToString(n)

\* (size / 1024 / 1024).toFixed(2): the nearest hundredth, ties upwards
ToFixed2MiB(size) ==
    LET mib == 1024 * 1024
        whole == size \div mib
        rest == size % mib
        hundredths == (rest * 200 + mib) \div (2 * mib)
    IN  IF hundredths = 100
        THEN ToString(whole + 1) \o ".00"
        ELSE ToString(whole) \o "." \o TwoDigits(hundredths)

UnsupportedFormatMessage == "Unsupported file format. Supported: PDF, PNG, JPG, WEBP"

SizeMessage(size) ==
    "File size exceeds 25MB limit. Current: " \o ToFixed2MiB(size) \o "MB"

\* validateFile with the size check placed before the type check
validateFileSizeFirst(file) ==
    IF file = Null
    THEN [valid |-> FALSE, error |-> "No file provided"]
    ELSE IF file[1].size > MAX_FILE_SIZE
    THEN [valid |-> FALSE, error |-> SizeMessage(file[1].size)]
    ELSE IF file[1].type \notin SUPPORTED_FORMATS
    THEN [valid |-> FALSE, error |-> UnsupportedFormatMessage]
    ELSE [valid |-> TRUE]

\* validateFile with >= in place of > in the size check
validateFileAtLeast(file) ==
    IF file = Null
    THEN [valid |-> FALSE, error |-> "No file provided"]
    ELSE IF file[1].type \notin SUPPORTED_FORMATS
    THEN [valid |-> FALSE, error |-> UnsupportedFormatMessage]
    ELSE IF file[1].size >= MAX_FILE_SIZE
    THEN [valid |-> FALSE, error |-> SizeMessage(file[1].size)]
    ELSE [valid |-> TRUE]

\* file is a nullable File
validateFile(file) ==
    IF file = Null
    THEN [valid |-> FALSE, error |-> "No file provided"]
    ELSE IF file[1].type \notin SUPPORTED_FORMATS
    THEN [valid |-> FALSE, error |-> UnsupportedFormatMessage]
    ELSE IF file[1].size > MAX_FILE_SIZE
    THEN [valid |-> FALSE, error |-> SizeMessage(file[1].size)]
    ELSE [valid |-> TRUE]

\* the data URL FileReader.readAsDataURL produces for a file
DataUrl(file) == "data:" \o file.type \o ";base64," \o file.bytes

(***************************************************************************)
(* textExtraction.ts: pure parts                                           *)
(***************************************************************************)
\* the <<k, n>> with n <= 300 for which 100 * k / n is an exact half and the
\* double (k / n) * 100 lies just below it (23 / 40 * 100 is
\* 57.49999999999999); for every other k <= n <= 300 the double lies on the
\* same side of the half as the exact quotient
HalvesComputedBelow ==
    {<<23, 40>>, <<46, 80>>, <<69, 120>>, <<92, 160>>, <<29, 200>>, <<57, 200>>,
     <<113, 200>>, <<115, 200>>, <<138, 240>>, <<161, 280>>}

\* Math.floor((k / n) * 100) in place of Math.round
RoundPercentFloor(k, n) == (100 * k) \div n

\* Math.round((k / n) * 100) for 0 <= k <= n, 0 < n <= 300: the nearest
\* integer, an exact half upwards unless the double lies below it
RoundPercent(k, n) ==
    IF <<k, n>> \in HalvesComputedBelow
    THEN (200 * k + n) \div (2 * n) - 1
    ELSE (200 * k + n) \div (2 * n)

Abs(d) == IF d < 0 THEN 0 - d ELSE d

IsSpace(c) == c \in {" ", "\n", "\t"}

\* s without the white space before position a and after position b, and
\* without the white space at its two ends
RECURSIVE TrimBetween(_, _, _)
TrimBetween(s, a, b) ==
    IF a > b THEN ""
    ELSE IF IsSpace(SubSeq(s, a, a)) THEN TrimBetween(s, a + 1, b)
    ELSE IF IsSpace(SubSeq(s, b, b)) THEN TrimBetween(s, a, b - 1)
    ELSE SubSeq(s, a, b)

\* String.prototype.trim
Trim(s) == TrimBetween(s, 1, Len(s))

\* the forEach callback with >= in place of > in the line-break test
RECURSIVE PageTextUpToAtLeast(_, _)
PageTextUpToAtLeast(items, k) ==
    IF k = 0 THEN ""
    ELSE LET currentY == items[k].y
             lastY == IF k = 1 THEN Null ELSE Some(items[k - 1].y)
             lineBreak == IF lastY # Null /\ Abs(currentY - lastY[1]) >= LINE_BREAK_DY
                          THEN "\n"
                          ELSE ""
         IN  PageTextUpToAtLeast(items, k - 1) \o lineBreak \o items[k].str

\* pageText after the forEach callback has run for the first k items of a
\* page (items are [str, y]); lastY is null before the first item and the
\* y of the item before otherwise
RECURSIVE PageTextUpTo(_, _)
PageTextUpTo(items, k) ==
    IF k = 0 THEN ""
    ELSE LET currentY == items[k].y
             lastY == IF k = 1 THEN Null ELSE Some(items[k - 1].y)
             lineBreak == IF lastY # Null /\ Abs(currentY - lastY[1]) > LINE_BREAK_DY
                          THEN "\n"
                          ELSE ""
         IN  PageTextUpTo(items, k - 1) \o lineBreak \o items[k].str

PageText(items) == PageTextUpTo(items, Len(items))

\* Math.round(message.progress * 100), message.progress given in thousandths
RoundFraction(m) == (m + 5) \div 10

\* the Error each engine throws from its catch block
PdfError(cause) ==
    [isError |-> TRUE,
     message |-> "PDF extraction failed: " \o
                 (IF cause.isError THEN cause.message ELSE "Unknown error")]

OcrError(cause) ==
    [isError |-> TRUE,
     message |-> "OCR extraction failed: " \o
                 (IF cause.isError THEN cause.message ELSE "Unknown error")]

\* the dispatch with a misspelt media type
IsPDFWrongType(file) == file.type = "application/x-pdf"

\* extractTextFromFile: the dispatch on the declared media type
IsPDF(file) == file.type = "application/pdf"

(***************************************************************************)
(* useFileExtraction: the records and state updates of the hook            *)
(***************************************************************************)
FileTypeOf(file) == IF file.type = "application/pdf" THEN "pdf" ELSE "image"

BeginRecord(file) ==
    [fileName |-> file.name, progress |-> 0, status |-> "extracting"]

\* the updater of the progress callback: prev ? {...prev, progress, status} : null
ProgressTick(prev, progress) ==
    IF prev # Null
    THEN Some([prev[1] EXCEPT !.progress = progress, !.status = "extracting"])
    ELSE Null

MakeResult(file, previewUrl, text, confidence, now) ==
    [fileName |-> file.name,
     fileType |-> FileTypeOf(file),
     extractedText |-> text,
     previewUrl |-> previewUrl,
     confidence |-> confidence,
     extractedAt |-> now]

\* the new result put in place of the previous ones
KeepLatestResult(result, prev) == <<result>>

\* the new result put behind the previous ones
AppendResult(result, prev) == prev \o <<result>>

PrependResult(result, prev) == <<result>> \o prev

CompleteRecord(file) ==
    [fileName |-> file.name, progress |-> 100, status |-> "complete"]

ErrorMessageOf(error) == IF error.isError THEN error.message ELSE "Extraction failed"

\* the error record with a fixed message in place of the failure's
ErrorRecordGeneric(file, error) ==
    [fileName |-> file.name, progress |-> 0, status |-> "error",
     error |-> "Extraction failed"]

ErrorRecord(file, error) ==
    [fileName |-> file.name, progress |-> 0, status |-> "error",
     error |-> ErrorMessageOf(error)]

\* the busy flag left set when the call settles
LoadingStuck == TRUE

\* the finally block: setIsLoading(false)
LoadingAfterSettle == FALSE

\* what the auto-clear callback stores
ClearedProgress == Null

(***************************************************************************)
(* Inputs of the model                                                     *)
(***************************************************************************)
PdfA ==
    [name |-> "a.pdf", type |-> "application/pdf", size |-> 2048, bytes |-> "JVBERi0x",
     pages |-> << << [str |-> "Hello", y |-> 700], [str |-> " world", y |-> 700],
                     [str |-> "Bye", y |-> 680] >>,
                  << [str |-> "End ", y |-> 700] >> >>]

ImgB ==
    [name |-> "b.png", type |-> "image/png", size |-> 1024, bytes |-> "iVBORw0K",
     pages |-> <<>>]

BigPng ==
    [name |-> "big.png", type |-> "image/png", size |-> 30 * 1024 * 1024,
     bytes |-> "iVBORw0L", pages |-> <<>>]

NotesTxt ==
    [name |-> "notes.txt", type |-> "text/plain", size |-> 10, bytes |-> "bm90ZXM=",
     pages |-> <<>>]

\* the files the user drops or picks
UploadFiles == {PdfA, ImgB, BigPng, NotesTxt}

PdfOne ==
    [name |-> "one.pdf", type |-> "application/pdf", size |-> 512, bytes |-> "JVBERi0y",
     pages |-> << << [str |-> "Only", y |-> 100], [str |-> "page", y |-> 94] >> >>]

PdfThree ==
    [name |-> "three.pdf", type |-> "application/pdf", size |-> 4096,
     bytes |-> "JVBERi0z",
     pages |-> << << [str |-> "One", y |-> 700] >>,
                  << >>,
                  << [str |-> "Three", y |-> 700], [str |-> "3", y |-> 695] >> >>]

ImgJpeg ==
    [name |-> "d.jpg", type |-> "image/jpeg", size |-> 2048, bytes |-> "/9j/4AAQ",
     pages |-> <<>>]

ImgWebp ==
    [name |-> "e.webp", type |-> "image/webp", size |-> MAX_FILE_SIZE,
     bytes |-> "UklGRg==", pages |-> <<>>]

\* the files dropped in the behaviours checked under fairness
LiveFiles == UploadFiles \cup {PdfOne, PdfThree, ImgJpeg, ImgWebp}

\* what a rejected library promise carries: an Error or some other value
PdfFailureCauses == {[isError |-> TRUE, message |-> "Invalid PDF structure."],
                     [isError |-> FALSE]}

OcrFailureCauses == {[isError |-> TRUE, message |-> "Error attempting to read image."],
                     [isError |-> FALSE]}

\* message.progress of the OCR logger, in thousandths; the library restarts
\* its progress at 0 for every phase of the recognition job
OcrProgressValues == {0, 500, 1000}

\* result.data of a finished recognition
OcrData == {[text |-> " Scanned text\n", confidence |-> Some(87)],
            [text |-> "", confidence |-> Null]}

ValidatorTypes ==
    SUPPORTED_FORMATS \cup {"text/plain", "image/gif", ""}

ValidatorSizes ==
    {0, 1024, MAX_FILE_SIZE - 1, MAX_FILE_SIZE, MAX_FILE_SIZE + 1,
     MAX_FILE_SIZE + 131072, 30 * 1024 * 1024}

\* the candidates handed to validateFile: every type with every size, or no file
ValidatorCandidates ==
    {Null} \cup
    {Some([name |-> "f", type |-> t, size |-> s, bytes |-> "", pages |-> <<>>]) :
        t \in ValidatorTypes, s \in ValidatorSizes}

(***************************************************************************)
(* State                                                                   *)
(***************************************************************************)
VARIABLES
    extractedResults,   \* useFileExtraction: ExtractedResult[]
    uploadProgress,     \* useFileExtraction: UploadProgress | null
    isLoading,          \* useFileExtraction: the busy flag
    activeResultIndex,  \* Home: number | null (0-based)
    prevResultsLength,  \* Home: prevResultsLengthRef.current
    uploaderError,      \* FileUploader: error state of the mounted uploader
    calls,              \* the handleFile calls so far, each with its position
                        \* (pc) and the time its extraction began (beganAt)
    timers,             \* pending setTimeout callbacks, in scheduling order,
                        \* each with the time it was set (setAt)
    objectUrls,         \* calls whose URL.createObjectURL is not yet revoked
    clock,              \* the value new Date() returns; it advances past every
                        \* timestamp it has handed out
    candidate,          \* validator harness: the file under validation
    validation,         \* validator harness: the result of validateFile
    engine              \* document engine harness: one extractTextFromPDF
                        \* call, with the ticks it has reported so far

hookVars == <<extractedResults, uploadProgress, isLoading>>

pageVars == <<activeResultIndex, prevResultsLength>>

harnessVars == <<candidate, validation, engine>>

vars == <<extractedResults, uploadProgress, isLoading, activeResultIndex,
          prevResultsLength, uploaderError, calls, timers, objectUrls, clock,
          candidate, validation, engine>>

\* no extractTextFromPDF call under observation
IdleEngine ==
    [file |-> Null, pageNum |-> 0, fullText |-> "", ticks |-> <<>>, result |-> Null]

Init ==
    /\ extractedResults = <<>>
    /\ uploadProgress = Null
    /\ isLoading = FALSE
    /\ activeResultIndex = Null
    /\ prevResultsLength = 0
    /\ uploaderError = Null
    /\ calls = <<>>
    /\ timers = <<>>
    /\ objectUrls = {}
    /\ clock = 1
    /\ candidate = Null
    /\ validation = Null
    /\ engine = IdleEngine

(***************************************************************************)
(* Home (page.tsx): rendering                                              *)
(***************************************************************************)
\* activeResultIndex !== null ? extractedResults[activeResultIndex] : null
\* (an index outside the array reads undefined, which renders like null)
ActiveResultOf(results, index) ==
    IF index = Null THEN Null
    ELSE IF index[1] + 1 \in DOMAIN results THEN Some(results[index[1] + 1])
    ELSE Null

ActiveResult == ActiveResultOf(extractedResults, activeResultIndex)

\* the uploader, the progress bar and Recent Extractions are rendered
UploaderShown == ActiveResult = Null

\* the drop zone and the file input accept a file
UploadEnabled == UploaderShown /\ ~isLoading

\* the effect with the ref assigned before the comparison
EffectSelectsAfterRefUpdate(results, loading, prevLength) ==
    Len(results) > Len(results) /\ ~loading

\* useEffect on [extractedResults.length, isLoading]: the index it selects
EffectSelects(results, loading, prevLength) == Len(results) > prevLength /\ ~loading

\* a FileUploader that is unmounted loses its state, and the handleFile
\* calls it is still running can no longer set it
Unmounted(cs) ==
    [i \in DOMAIN cs |->
        IF cs[i].pc = "preview" THEN [cs[i] EXCEPT !.mounted = FALSE] ELSE cs[i]]

\* One render after a task: the new hook state and selection are committed,
\* the effect runs when one of its dependencies changed, and the uploader is
\* unmounted when a result is shown.
Commit(results, progress, loading, index, cs, uerr) ==
    LET depsChanged == Len(results) # Len(extractedResults) \/ loading # isLoading
        index2 == IF depsChanged /\ EffectSelects(results, loading, prevResultsLength)
                  THEN Some(0)
                  ELSE index
        shown == ActiveResultOf(results, index2) = Null
    IN  /\ extractedResults' = results
        /\ uploadProgress' = progress
        /\ isLoading' = loading
        /\ activeResultIndex' = index2
        /\ prevResultsLength' = IF depsChanged THEN Len(results) ELSE prevResultsLength
        /\ calls' = IF shown THEN cs ELSE Unmounted(cs)
        /\ uploaderError' = IF shown THEN uerr ELSE Null

(***************************************************************************)
(* FileUploader.handleFile                                                 *)
(***************************************************************************)
NewCall(file, pc) ==
    [file |-> file, pc |-> pc, mounted |-> TRUE, pageNum |-> 0, fullText |-> "",
     beganAt |-> 0]

\* handleFile without the return after a failed validation
HandleFileNoReturn(file) ==
    /\ UploadEnabled
    /\ Len(calls) < MaxDrops
    /\ LET v == validateFile(Some(file))
       IN  Commit(extractedResults, uploadProgress, isLoading, activeResultIndex,
                  Append(calls, NewCall(file, "preview")),
                  IF v.valid THEN Null ELSE Some(v.error))
    /\ UNCHANGED <<timers, objectUrls, clock, harnessVars>>

\* handleDrop / handleInputChange -> handleFile(files[0]), up to the await
HandleFile(file) ==
    /\ UploadEnabled
    /\ Len(calls) < MaxDrops
    /\ LET v == validateFile(Some(file))
       IN  IF ~v.valid
           THEN Commit(extractedResults, uploadProgress, isLoading, activeResultIndex,
                       Append(calls, NewCall(file, "rejected")), Some(v.error))
           ELSE Commit(extractedResults, uploadProgress, isLoading, activeResultIndex,
                       Append(calls, NewCall(file, "preview")), Null)
    /\ UNCHANGED <<timers, objectUrls, clock, harnessVars>>

\* reader.onerror: getFilePreviewUrl rejects and handleFile catches
PreviewFailed(i) ==
    /\ i \in DOMAIN calls
    /\ calls[i].pc = "preview"
    /\ Commit(extractedResults, uploadProgress, isLoading, activeResultIndex,
              [calls EXCEPT ![i].pc = "previewFailed"],
              IF calls[i].mounted THEN Some("Failed to process file") ELSE uploaderError)
    /\ UNCHANGED <<timers, objectUrls, clock, harnessVars>>

(***************************************************************************)
(* Home.handleFileSelect -> handleFileExtraction -> extractTextFromFile    *)
(***************************************************************************)
InFlightPcs == {"pdfOpen", "pdfPage", "ocr"}

InFlight(i) == calls[i].pc \in InFlightPcs

\* reader.onload: the preview resolves, onFileSelect runs handleFileSelect,
\* which begins the extraction and runs the engine up to its first await
PreviewLoaded(i) ==
    /\ i \in DOMAIN calls
    /\ calls[i].pc = "preview"
    /\ LET file == calls[i].file
       IN  /\ Commit(extractedResults, Some(BeginRecord(file)), TRUE, Null,
                     [calls EXCEPT ![i].pc = IF IsPDF(file) THEN "pdfOpen" ELSE "ocr",
                                   ![i].beganAt = clock],
                     uploaderError)
           /\ objectUrls' = IF IsPDF(file) THEN objectUrls ELSE objectUrls \cup {i}
    /\ UNCHANGED <<timers, clock, harnessVars>>

\* the try block after the await, then finally
SettleSuccess(i, text, confidence, urls) ==
    LET file == calls[i].file
        result == MakeResult(file, DataUrl(file), text, confidence, clock)
    IN  /\ Commit(PrependResult(result, extractedResults), Some(CompleteRecord(file)),
                  LoadingAfterSettle, activeResultIndex,
                  [calls EXCEPT ![i].pc = "success"], uploaderError)
        /\ timers' = Append(timers, [owner |-> i, delay |-> CLEAR_DELAY, setAt |-> clock])
        /\ clock' = clock + 1
        /\ objectUrls' = urls

\* the catch block, then finally
SettleFailure(i, error) ==
    /\ Commit(extractedResults, Some(ErrorRecord(calls[i].file, error)),
              LoadingAfterSettle, activeResultIndex,
              [calls EXCEPT ![i].pc = "failed"], uploaderError)
    /\ UNCHANGED <<timers, clock, objectUrls>>

\* the callback handed to the engine
OnProgress(progress, cs) ==
    /\ Commit(extractedResults, ProgressTick(uploadProgress, progress), isLoading,
              activeResultIndex, cs, uploaderError)
    /\ UNCHANGED <<timers, clock, objectUrls>>

(***************************************************************************)
(* extractTextFromPDF                                                      *)
(***************************************************************************)
TotalPages(file) == Len(file.pages)

\* fullText after the page pageNum has been read
FullTextAfter(fullText, file, pageNum) ==
    fullText \o PageText(file.pages[pageNum]) \o "\n\n"

\* arrayBuffer, the import and getDocument resolve: the page loop starts
PdfOpened(i) ==
    /\ i \in DOMAIN calls
    /\ calls[i].pc = "pdfOpen"
    /\ IF TotalPages(calls[i].file) = 0
       THEN SettleSuccess(i, Trim(""), Null, objectUrls)
       ELSE /\ Commit(extractedResults, uploadProgress, isLoading, activeResultIndex,
                      [calls EXCEPT ![i].pc = "pdfPage", ![i].pageNum = 1],
                      uploaderError)
            /\ UNCHANGED <<timers, clock, objectUrls>>
    /\ UNCHANGED harnessVars

\* getPage and getTextContent of page pageNum resolve: the page is added,
\* progress is reported, and after the last page the text is returned
PdfPageRead(i) ==
    /\ i \in DOMAIN calls
    /\ calls[i].pc = "pdfPage"
    /\ \E file \in {calls[i].file}, pageNum \in {calls[i].pageNum} :
          \E fullText \in {FullTextAfter(calls[i].fullText, file, pageNum)},
             progress \in {RoundPercent(pageNum, TotalPages(file))} :
             IF pageNum < TotalPages(file)
             THEN OnProgress(progress,
                             [calls EXCEPT ![i].pageNum = pageNum + 1,
                                           ![i].fullText = fullText])
             ELSE SettleSuccess(i, Trim(fullText), Null, objectUrls)
    /\ UNCHANGED harnessVars

\* any await of extractTextFromPDF rejects
PdfFailed(i, cause) ==
    /\ i \in DOMAIN calls
    /\ calls[i].pc \in {"pdfOpen", "pdfPage"}
    /\ SettleFailure(i, PdfError(cause))
    /\ UNCHANGED harnessVars

(***************************************************************************)
(* extractTextFromImage                                                    *)
(***************************************************************************)
\* result.data.confidence || 0
ConfidenceOf(data) ==
    IF data.confidence = Null THEN 0 ELSE data.confidence[1]

\* the logger option of Tesseract.recognize receives a message
OcrLogged(i, m) ==
    /\ i \in DOMAIN calls
    /\ calls[i].pc = "ocr"
    /\ IF m # 0
       THEN OnProgress(RoundFraction(m), calls)
       ELSE UNCHANGED <<hookVars, pageVars, uploaderError, calls, timers, clock,
                        objectUrls>>
    /\ UNCHANGED harnessVars

\* Tesseract.recognize resolves
OcrRecognized(i, data) ==
    /\ i \in DOMAIN calls
    /\ calls[i].pc = "ocr"
    /\ SettleSuccess(i, Trim(data.text), Some(ConfidenceOf(data)), objectUrls \ {i})
    /\ UNCHANGED harnessVars

\* Tesseract.recognize rejects
OcrFailed(i, cause) ==
    /\ i \in DOMAIN calls
    /\ calls[i].pc = "ocr"
    /\ SettleFailure(i, OcrError(cause))
    /\ UNCHANGED harnessVars

(***************************************************************************)
(* Timer, clearResults and the selection handlers of Home                  *)
(***************************************************************************)
\* setTimeout(() => setUploadProgress(null), 2000) comes due; all timers
\* have the same delay, so they come due in the order they were set
TimerFired ==
    /\ timers # <<>>
    /\ Commit(extractedResults, ClearedProgress, isLoading, activeResultIndex, calls,
              uploaderError)
    /\ timers' = Tail(timers)
    /\ UNCHANGED <<clock, objectUrls, harnessVars>>

\* clearResults that also resets the progress record
ClearResultsAndProgress ==
    /\ Commit(<<>>, Null, isLoading, activeResultIndex, calls, uploaderError)
    /\ UNCHANGED <<timers, clock, objectUrls, harnessVars>>

\* clearResults: () => setExtractedResults([])
ClearResults ==
    /\ Commit(<<>>, uploadProgress, isLoading, activeResultIndex, calls, uploaderError)
    /\ UNCHANGED <<timers, clock, objectUrls, harnessVars>>

\* onClick of a Recent Extractions entry
SelectResult(idx) ==
    /\ UploaderShown
    /\ idx + 1 \in DOMAIN extractedResults
    /\ Commit(extractedResults, uploadProgress, isLoading, Some(idx), calls,
              uploaderError)
    /\ UNCHANGED <<timers, clock, objectUrls, harnessVars>>

\* onBack of the ResultView
Back ==
    /\ ~UploaderShown
    /\ Commit(extractedResults, uploadProgress, isLoading, Null, calls, uploaderError)
    /\ UNCHANGED <<timers, clock, objectUrls, harnessVars>>

(***************************************************************************)
(* The application                                                         *)
(***************************************************************************)
CallIds == 1..MaxDrops

ResultIndexes == 0..(MaxDrops - 1)

Next ==
    \/ \E file \in UploadFiles : HandleFile(file)
    \/ \E i \in CallIds : PreviewLoaded(i)
    \/ \E i \in CallIds : PreviewFailed(i)
    \/ \E i \in CallIds : PdfOpened(i)
    \/ \E i \in CallIds : PdfPageRead(i)
    \/ \E i \in CallIds, cause \in PdfFailureCauses : PdfFailed(i, cause)
    \/ \E i \in CallIds, m \in OcrProgressValues : OcrLogged(i, m)
    \/ \E i \in CallIds, data \in OcrData : OcrRecognized(i, data)
    \/ \E i \in CallIds, cause \in OcrFailureCauses : OcrFailed(i, cause)
    \/ TimerFired
    \/ ClearResults
    \/ \E idx \in ResultIndexes : SelectResult(idx)
    \/ Back

Spec == Init /\ [][Next]_vars

(***************************************************************************)
(* The validator on its own: a candidate is drawn, then validated          *)
(***************************************************************************)
InitValidate ==
    /\ extractedResults = <<>>
    /\ uploadProgress = Null
    /\ isLoading = FALSE
    /\ activeResultIndex = Null
    /\ prevResultsLength = 0
    /\ uploaderError = Null
    /\ calls = <<>>
    /\ timers = <<>>
    /\ objectUrls = {}
    /\ clock = 1
    /\ candidate \in ValidatorCandidates
    /\ validation = Null
    /\ engine = IdleEngine

Validate ==
    /\ validation = Null
    /\ validation' = Some(validateFile(candidate))
    /\ UNCHANGED <<hookVars, pageVars, uploaderError, calls, timers, objectUrls, clock,
                   candidate, engine>>

NextValidate == Validate

SpecValidate == InitValidate /\ [][NextValidate]_vars

(***************************************************************************)
(* extractTextFromPDF on its own: a document is drawn and parsed page by   *)
(* page, every await resolving; onProgress records what it is handed       *)
(***************************************************************************)
\* a document of n pages, two fragments on two lines on every page
Doc(n) ==
    [name |-> "doc.pdf", type |-> "application/pdf", size |-> 1024 * n,
     bytes |-> "JVBERi00",
     pages |-> [p \in 1..n |-> << [str |-> "a", y |-> 700], [str |-> "b", y |-> 690] >>]]

\* vertical distances of exactly 5 and of 6, downwards and upwards
PdfEdges ==
    [name |-> "edges.pdf", type |-> "application/pdf", size |-> 700,
     bytes |-> "JVBERi01",
     pages |-> << << [str |-> "A", y |-> 100], [str |-> "B", y |-> 95],
                     [str |-> "C", y |-> 89], [str |-> "D", y |-> 95],
                     [str |-> "E", y |-> 100] >> >>]

\* fragments at the vertical position 0
PdfZero ==
    [name |-> "zero.pdf", type |-> "application/pdf", size |-> 600,
     bytes |-> "JVBERi02",
     pages |-> << << [str |-> "x", y |-> 0], [str |-> "y", y |-> 10],
                     [str |-> "z", y |-> 0] >> >>]

\* white space at the start of the first page and the end of the last
PdfSpaces ==
    [name |-> "spaces.pdf", type |-> "application/pdf", size |-> 900,
     bytes |-> "JVBERi03",
     pages |-> << << [str |-> " ", y |-> 700], [str |-> "  Title ", y |-> 700] >>,
                  << [str |-> "body", y |-> 700], [str |-> " ", y |-> 650] >> >>]

\* nothing but white space
PdfBlank ==
    [name |-> "blank.pdf", type |-> "application/pdf", size |-> 300,
     bytes |-> "JVBERi04",
     pages |-> << << [str |-> " ", y |-> 10] >>, << >> >>]

EngineDocuments ==
    {Doc(n) : n \in 0..MaxPages}
       \cup {PdfA, PdfOne, PdfThree, PdfEdges, PdfZero, PdfSpaces, PdfBlank}

InitEngine ==
    /\ extractedResults = <<>>
    /\ uploadProgress = Null
    /\ isLoading = FALSE
    /\ activeResultIndex = Null
    /\ prevResultsLength = 0
    /\ uploaderError = Null
    /\ calls = <<>>
    /\ timers = <<>>
    /\ objectUrls = {}
    /\ clock = 1
    /\ candidate = Null
    /\ validation = Null
    /\ \E file \in EngineDocuments : engine = [IdleEngine EXCEPT !.file = Some(file)]

\* arrayBuffer, the import and getDocument resolve: the page loop starts,
\* or ends at once for a document without pages
EngineOpened ==
    /\ engine.file # Null
    /\ engine.pageNum = 0
    /\ engine.result = Null
    /\ engine' = IF TotalPages(engine.file[1]) = 0
                 THEN [engine EXCEPT !.result = Some(Trim(""))]
                 ELSE [engine EXCEPT !.pageNum = 1]
    /\ UNCHANGED <<hookVars, pageVars, uploaderError, calls, timers, objectUrls, clock,
                   candidate, validation>>

\* getPage and getTextContent of page pageNum resolve: the page is added,
\* onProgress is called, and after the last page the text is returned
EnginePageRead ==
    /\ engine.file # Null
    /\ engine.pageNum >= 1
    /\ engine.result = Null
    /\ \E file \in {engine.file[1]}, pageNum \in {engine.pageNum} :
          \E fullText \in {FullTextAfter(engine.fullText, file, pageNum)},
             progress \in {RoundPercent(pageNum, TotalPages(file))} :
             engine' = [engine EXCEPT
                           !.fullText = fullText,
                           !.ticks = Append(engine.ticks, progress),
                           !.pageNum = IF pageNum < TotalPages(file)
                                       THEN pageNum + 1 ELSE pageNum,
                           !.result = IF pageNum < TotalPages(file)
                                      THEN Null ELSE Some(Trim(fullText))]
    /\ UNCHANGED <<hookVars, pageVars, uploaderError, calls, timers, objectUrls, clock,
                   candidate, validation>>

NextEngine == EngineOpened \/ EnginePageRead

SpecEngine == InitEngine /\ [][NextEngine]_vars

(***************************************************************************)
(* Fairness: every engine call that is pending settles                     *)
(***************************************************************************)
EngineStep(i) ==
    \/ PdfOpened(i)
    \/ PdfPageRead(i)
    \/ \E cause \in PdfFailureCauses : PdfFailed(i, cause)
    \/ \E data \in OcrData : OcrRecognized(i, data)
    \/ \E cause \in OcrFailureCauses : OcrFailed(i, cause)

\* handleFile, for at most MaxLiveDrops files
LiveHandleFile(file) ==
    /\ Len(calls) < MaxLiveDrops
    /\ HandleFile(file)

LiveNext ==
    \/ \E file \in LiveFiles : LiveHandleFile(file)
    \/ \E i \in CallIds : PreviewLoaded(i)
    \/ \E i \in CallIds : PreviewFailed(i)
    \/ \E i \in CallIds : PdfOpened(i)
    \/ \E i \in CallIds : PdfPageRead(i)
    \/ \E i \in CallIds, cause \in PdfFailureCauses : PdfFailed(i, cause)
    \/ \E i \in CallIds, m \in OcrProgressValues : OcrLogged(i, m)
    \/ \E i \in CallIds, data \in OcrData : OcrRecognized(i, data)
    \/ \E i \in CallIds, cause \in OcrFailureCauses : OcrFailed(i, cause)
    \/ TimerFired
    \/ ClearResults
    \/ \E idx \in ResultIndexes : SelectResult(idx)
    \/ Back

LiveCallIds == 1..MaxLiveDrops

FairSpec == Init /\ [][LiveNext]_vars /\ \A i \in LiveCallIds : WF_vars(EngineStep(i))

(***************************************************************************)
(* Vocabulary of the properties                                            *)
(***************************************************************************)
\* the step in which handleFileExtraction is entered for call i
Began(i) == i \in DOMAIN calls /\ calls[i].pc = "preview" /\ calls'[i].pc \in InFlightPcs

\* the step in which the extraction of call i reaches its success outcome
Succeeded(i) == i \in DOMAIN calls /\ InFlight(i) /\ calls'[i].pc = "success"

\* the step in which the extraction of call i reaches its failure outcome
Failed(i) == i \in DOMAIN calls /\ InFlight(i) /\ calls'[i].pc = "failed"

\* the step in which a pending timer comes due
TimerStep == timers # <<>> /\ timers' = Tail(timers)

\* the step in which handleFile is called for a new file
Dropped == Len(calls') = Len(calls) + 1

InFlightCalls == {i \in DOMAIN calls : InFlight(i)}

IsPrefix(p, str) == Len(p) <= Len(str) /\ SubSeq(str, 1, Len(p)) = p

\* the allow-list as the specification gives it
AllowList == {"application/pdf", "image/png", "image/jpeg", "image/jpg", "image/webp"}

(***************************************************************************)
(* Properties                                                              *)
(***************************************************************************)
\* C1: at most one extraction is in flight at a time: handleFileExtraction
\* is never entered for a second file while an earlier call has not reached
\* its success or failure outcome.
C1_AtMostOneInFlight == Cardinality(InFlightCalls) <= 1

\* C2: when the auto-clear timer of a completed extraction comes due after
\* a new extraction has begun, the progress record of the new extraction
\* stays present with its status and percent.
C2_PendingClearInvalidated ==
    [][(/\ TimerStep
        /\ uploadProgress # Null
        /\ \E j \in DOMAIN calls :
              /\ InFlight(j)
              /\ calls[j].beganAt > Head(timers).setAt
              /\ uploadProgress[1].status = "extracting"
              /\ uploadProgress[1].fileName = calls[j].file.name)
       => uploadProgress' = uploadProgress]_vars

\* C3: a progress record with status error stays unchanged until the next
\* handleFileExtraction begins; no timer and no other event clears or
\* alters it.
C3_ErrorRetained ==
    [][(/\ uploadProgress # Null
        /\ uploadProgress[1].status = "error"
        /\ ~ \E i \in DOMAIN calls : Began(i))
       => uploadProgress' = uploadProgress]_vars

\* C4: between one begin and the next the progress value of the progress
\* record never decreases, whatever the ticks and the terminal outcome, on
\* the document path and on the image path.
C4_ProgressMonotone ==
    [][(/\ uploadProgress # Null
        /\ uploadProgress' # Null
        /\ ~ \E i \in DOMAIN calls : Began(i))
       => uploadProgress'[1].progress >= uploadProgress[1].progress]_vars

\* C5: a successful extraction puts its new ExtractedResult in front of the
\* previous list, which is kept whole and in order: the length grows by
\* one, the new entry is at index 0, nothing is deduplicated.
C5_ResultPrepended ==
    [][\A i \in DOMAIN calls :
          Succeeded(i) =>
             /\ Len(extractedResults') = Len(extractedResults) + 1
             /\ Tail(extractedResults') = extractedResults
             /\ Head(extractedResults').fileName = calls[i].file.name
             /\ Head(extractedResults').fileType =
                   (IF calls[i].file.type = "application/pdf" THEN "pdf" ELSE "image")
             /\ Head(extractedResults').extractedAt = clock]_vars

\* C5 witness: the same file was extracted twice; both entries are in the
\* list, the later one first.
C5_TwoUploadsSecondFirst ==
    /\ Len(extractedResults) = 2
    /\ extractedResults[1].fileName = extractedResults[2].fileName
    /\ extractedResults[1].extractedText = extractedResults[2].extractedText
    /\ extractedResults[1].extractedAt > extractedResults[2].extractedAt

\* C6: when the engine fails, the progress record becomes status error with
\* progress 0 and the failure's message, prefixed "PDF extraction failed:"
\* for a document and "OCR extraction failed:" for an image; the busy flag
\* is cleared and the result list is left as it was.
C6_FailureRecorded ==
    [][\A i \in DOMAIN calls :
          Failed(i) =>
             /\ uploadProgress' # Null
             /\ DOMAIN uploadProgress'[1] = {"fileName", "progress", "status", "error"}
             /\ uploadProgress'[1].fileName = calls[i].file.name
             /\ uploadProgress'[1].progress = 0
             /\ uploadProgress'[1].status = "error"
             /\ IsPrefix(IF calls[i].file.type = "application/pdf"
                         THEN "PDF extraction failed:"
                         ELSE "OCR extraction failed:",
                         uploadProgress'[1].error)
             /\ uploadProgress'[1].error
                   \in {"PDF extraction failed: Invalid PDF structure.",
                        "PDF extraction failed: Unknown error",
                        "OCR extraction failed: Error attempting to read image.",
                        "OCR extraction failed: Unknown error"}
             /\ isLoading' = FALSE
             /\ extractedResults' = extractedResults]_vars

\* C6 witness: a document extraction failed after an earlier success; the
\* error is shown and the earlier result is still the whole list.
C6_CorruptPdfAfterSuccess ==
    /\ \E i \in DOMAIN calls : calls[i].pc = "failed" /\ calls[i].file.type = "application/pdf"
    /\ uploadProgress # Null
    /\ uploadProgress[1].status = "error"
    /\ uploadProgress[1].error = "PDF extraction failed: Invalid PDF structure."
    /\ Len(extractedResults) = 1
    /\ ~isLoading

\* C7: every extraction whose engine call settles finishes in its success
\* or failure outcome, and whenever the busy flag is set it is eventually
\* cleared: an engine rejection is absorbed by the orchestrator.
C7_BusyEventuallyCleared ==
    /\ \A i \in LiveCallIds :
          (i \in DOMAIN calls /\ InFlight(i))
             ~> (i \in DOMAIN calls /\ calls[i].pc \in {"success", "failed"})
    /\ isLoading ~> ~isLoading

\* C7 witness: an engine rejection was absorbed: the call has finished as
\* failed, the busy flag is clear and the record shows the error.
C7_RejectionAbsorbed ==
    /\ \E i \in DOMAIN calls : calls[i].pc = "failed"
    /\ InFlightCalls = {}
    /\ ~isLoading
    /\ uploadProgress # Null
    /\ uploadProgress[1].status = "error"

\* C8: a file whose declared media type is outside the allow-list is
\* rejected with the unsupported-format message whatever its size, also
\* above 25 MiB; an absent file is rejected with "No file provided".
C8_TypeCheckFirst ==
    validation # Null =>
       /\ candidate = Null =>
             validation[1] = [valid |-> FALSE, error |-> "No file provided"]
       /\ (candidate # Null /\ candidate[1].type \notin AllowList) =>
             validation[1] =
                [valid |-> FALSE,
                 error |-> "Unsupported file format. Supported: PDF, PNG, JPG, WEBP"]

\* C8 witness: a text file above 25 MiB has been validated and rejected.
C8_OversizeWrongTypeRejected ==
    /\ validation # Null
    /\ candidate # Null
    /\ candidate[1].type = "text/plain"
    /\ candidate[1].size > 26214400
    /\ ~validation[1].valid

\* the size in MiB to two decimals, worked out by hand for the sizes above
\* the limit
ExpectedMiB ==
    (26214401 :> "25.00") @@ (26345472 :> "25.13") @@ (31457280 :> "30.00")

\* C9: a file with an allowed media type is accepted exactly when its size
\* is at most 26214400 bytes, and a rejection for size carries
\* "File size exceeds 25MB limit. Current: <MiB to two decimals>MB".
C9_SizeLimit ==
    (validation # Null /\ candidate # Null /\ candidate[1].type \in AllowList) =>
       /\ validation[1].valid <=> candidate[1].size <= 26214400
       /\ ~validation[1].valid =>
             /\ candidate[1].size \in DOMAIN ExpectedMiB
             /\ validation[1].error =
                   "File size exceeds 25MB limit. Current: "
                      \o ExpectedMiB[candidate[1].size] \o "MB"

\* C9 witness: a PNG of exactly 26214400 bytes has been validated and
\* accepted.
C9_ExactLimitAccepted ==
    /\ validation # Null
    /\ candidate # Null
    /\ candidate[1].type = "image/png"
    /\ candidate[1].size = 26214400
    /\ validation[1].valid

\* C10: a file that validateFile rejects goes no further: no preview read
\* is started, no extraction begins, and the progress record, result list,
\* busy flag and selection are unchanged; only the uploader's error is set.
C10_RejectedFileStops ==
    [][/\ (Dropped /\ ~validateFile(Some(calls'[Len(calls')].file)).valid) =>
             /\ calls'[Len(calls')].pc \notin ({"preview"} \cup InFlightPcs)
             /\ uploaderError' = Some(validateFile(Some(calls'[Len(calls')].file)).error)
             /\ UNCHANGED <<extractedResults, uploadProgress, isLoading,
                            activeResultIndex, timers, objectUrls>>
       /\ \A i \in DOMAIN calls :
             ~validateFile(Some(calls[i].file)).valid =>
                /\ calls'[i].pc = calls[i].pc
                /\ calls[i].pc \notin ({"preview", "success", "failed"} \cup InFlightPcs)]_vars

\* C10 witness: the 30 MiB PNG was dropped and rejected with the size
\* message, and nothing else has happened.
C10_BigPngRejected ==
    /\ Len(calls) = 1
    /\ calls[1].file.name = "big.png"
    /\ calls[1].pc = "rejected"
    /\ uploaderError = Some("File size exceeds 25MB limit. Current: 30.00MB")
    /\ uploadProgress = Null
    /\ extractedResults = <<>>
    /\ ~isLoading

\* the step in which the preview read of call i fails
PreviewFailedStep(i) ==
    i \in DOMAIN calls /\ calls[i].pc = "preview" /\ calls'[i].pc = "previewFailed"

\* no call moves on, begins or is added in the step
CallsStay ==
    /\ Len(calls') = Len(calls)
    /\ \A i \in DOMAIN calls : calls'[i].pc = calls[i].pc /\ calls'[i].pageNum = calls[i].pageNum

\* the step in which the user clicks a Recent Extractions entry
Clicked ==
    /\ activeResultIndex' # Null
    /\ activeResultIndex' # activeResultIndex
    /\ CallsStay
    /\ UNCHANGED <<extractedResults, uploadProgress, isLoading, timers>>

\* C11: when the preview read of a validated file fails, the upload stops
\* there: handleFileExtraction is never entered for that file, the progress
\* record, the result list and the busy flag stay as they were, and the
\* uploader shows the inline error.
C11_PreviewFailureAborts ==
    [][\A i \in DOMAIN calls :
          /\ PreviewFailedStep(i) =>
                /\ UNCHANGED <<extractedResults, uploadProgress, isLoading, timers,
                               objectUrls>>
                /\ uploaderError' = Some("Failed to process file")
          /\ calls[i].pc = "previewFailed" => calls'[i].pc = "previewFailed"]_vars

\* C12: every object URL the image path has created is revoked once
\* extractTextFromImage has finished, by returning or by throwing: only an
\* image extraction still in flight holds an object URL.
C12_ObjectUrlsReleased ==
    \A i \in objectUrls : i \in DOMAIN calls /\ calls[i].pc = "ocr"

\* C13: when an extraction begins the selection is reset to none, and while
\* that extraction is in flight the selection stays none unless the user
\* clicks an entry.
C13_SelectionNoneWhileExtracting ==
    [][\A i \in DOMAIN calls :
          /\ Began(i) => activeResultIndex' = Null
          /\ (/\ InFlight(i)
              /\ calls'[i].pc \in InFlightPcs
              /\ activeResultIndex = Null
              /\ ~Clicked) => activeResultIndex' = Null]_vars

\* C14: when an extraction succeeds while the selection is none, the
\* selection is set to index 0 in the same render, which is the result just
\* prepended; the list has grown and the busy flag is false.
C14_NewestAutoSelected ==
    [][\A i \in DOMAIN calls :
          (Succeeded(i) /\ activeResultIndex = Null) =>
             /\ activeResultIndex' = Some(0)
             /\ Len(extractedResults') > Len(extractedResults)
             /\ ~isLoading'
             /\ ActiveResultOf(extractedResults', activeResultIndex')
                   = Some(Head(extractedResults'))
             /\ Head(extractedResults').fileName = calls[i].file.name
             /\ Head(extractedResults').extractedAt = clock]_vars

\* C14 witness: the second of two extractions has just completed and its
\* result, the newest, is the one shown.
C14_NewestOfTwoShown ==
    /\ Len(extractedResults) = 2
    /\ activeResultIndex = Some(0)
    /\ ~isLoading
    /\ uploadProgress # Null
    /\ uploadProgress[1].status = "complete"
    /\ extractedResults[1].extractedAt > extractedResults[2].extractedAt
    /\ uploadProgress[1].fileName = extractedResults[1].fileName

\* the step in which clearResults empties a list that had entries
ClearedStep == Len(extractedResults') < Len(extractedResults)

\* C15: clearResults leaves an empty list whatever the list held, and does
\* not touch an extraction in flight: the progress record, the busy flag,
\* the position of every call and the pending timers are unchanged, and an
\* extraction that succeeds on the emptied list makes its result the only
\* entry.
C15_ClearResultsFrame ==
    [][/\ ClearedStep =>
             /\ extractedResults' = <<>>
             /\ UNCHANGED <<uploadProgress, isLoading, timers, objectUrls>>
             /\ CallsStay
             /\ \A i \in DOMAIN calls : calls'[i].fullText = calls[i].fullText
       /\ \A i \in DOMAIN calls :
             (Succeeded(i) /\ extractedResults = <<>>) =>
                /\ Len(extractedResults') = 1
                /\ extractedResults'[1].fileName = calls[i].file.name]_vars

\* C15 witness: the list was cleared after an earlier success and an
\* extraction is in flight with its progress record and busy flag in place.
C15_ClearedWhileExtracting ==
    /\ extractedResults = <<>>
    /\ \E j \in DOMAIN calls : calls[j].pc = "success"
    /\ InFlightCalls # {}
    /\ isLoading
    /\ uploadProgress # Null
    /\ uploadProgress[1].status = "extracting"

\* the call was dispatched to extractTextFromPDF
OnDocumentPath(c) == c.pc \in {"pdfOpen", "pdfPage"}

\* C17: an extraction takes the document path exactly when the declared
\* media type is application/pdf and the image path otherwise; the stored
\* fileType is "pdf" exactly for the document path and "image" otherwise; a
\* document result has no confidence, an image result always has one.
C17_DispatchByMediaType ==
    [][\A i \in DOMAIN calls :
          /\ Began(i) =>
                /\ OnDocumentPath(calls'[i]) <=> calls[i].file.type = "application/pdf"
                /\ calls'[i].pc = "ocr" <=> calls[i].file.type # "application/pdf"
          /\ Succeeded(i) =>
                /\ Head(extractedResults').fileType = "pdf" <=> OnDocumentPath(calls[i])
                /\ Head(extractedResults').fileType = "image" <=> calls[i].pc = "ocr"
                /\ OnDocumentPath(calls[i]) => Head(extractedResults').confidence = Null
                /\ calls[i].pc = "ocr" =>
                      /\ Head(extractedResults').confidence # Null
                      /\ Head(extractedResults').confidence[1] \in 0..100]_vars

\* C17 witness: a document and an image have both been extracted; the
\* document's result has no confidence, the image's has one.
C17_OneOfEachPath ==
    /\ Len(extractedResults) = 2
    /\ \E d, g \in DOMAIN extractedResults :
          /\ extractedResults[d].fileType = "pdf"
          /\ extractedResults[d].confidence = Null
          /\ extractedResults[g].fileType = "image"
          /\ extractedResults[g].confidence # Null

\* the document under extractTextFromPDF has n >= 1 pages
EngineDocumentOf(n) == engine.file # Null /\ TotalPages(engine.file[1]) = n

\* C16: for a document of n >= 1 pages that parses, extractTextFromPDF
\* reports exactly n ticks, the k-th being 100 * k / n rounded to the
\* nearest integer (an exact half upwards); the ticks never decrease, every
\* tick is in 1..100 and the last is 100; 3 pages give 33, 67, 100.
C16_TicksRoundedInOneToHundred ==
    \A n \in 1..(MaxPages + 1) :
       EngineDocumentOf(n) =>
          /\ Len(engine.ticks) <= n
          /\ \A k \in DOMAIN engine.ticks :
                /\ engine.ticks[k] = (200 * k + n) \div (2 * n)
                /\ engine.ticks[k] \in 1..100
                /\ k > 1 => engine.ticks[k - 1] <= engine.ticks[k]
          /\ engine.result # Null =>
                /\ Len(engine.ticks) = n
                /\ engine.ticks[n] = 100
                /\ n = 3 => engine.ticks = <<33, 67, 100>>

\* C16 as amended: exactly n ticks, the k-th the nearest integer to
\* 100 * k / n, where an exact half goes to either neighbour (23 of 40 pages
\* gives 57, 1 of 8 gives 13); the ticks never decrease, every tick is in
\* 0..100, and in 1..100 up to 200 pages; the last is 100; 3 pages give 33,
\* 67, 100.
C16_TicksNearestInZeroToHundred ==
    \A n \in 1..(MaxPages + 1) :
       EngineDocumentOf(n) =>
          /\ Len(engine.ticks) <= n
          /\ (engine.result = Null /\ engine.pageNum >= 1) =>
                Len(engine.ticks) = engine.pageNum - 1
          /\ \A k \in DOMAIN engine.ticks :
                /\ 2 * n * engine.ticks[k] - 200 * k \in (0 - n)..n
                /\ engine.ticks[k] \in 0..100
                /\ n <= 200 => engine.ticks[k] >= 1
                /\ k > 1 => engine.ticks[k - 1] <= engine.ticks[k]
                /\ (n = 40 /\ k = 23) => engine.ticks[k] = 57
                /\ (n = 8 /\ k = 1) => engine.ticks[k] = 13
          /\ engine.result # Null =>
                /\ Len(engine.ticks) = n
                /\ engine.ticks[n] = 100
                /\ n = 3 => engine.ticks = <<33, 67, 100>>

\* C16 witness: a document of 201 pages has been parsed to the end; its
\* first tick was 0 and its last 100.
C16_LongDocumentParsed ==
    /\ EngineDocumentOf(201)
    /\ engine.result # Null
    /\ Len(engine.ticks) = 201
    /\ engine.ticks[1] = 0
    /\ engine.ticks[201] = 100

\* the step in which the timer set by the latest success comes due
LatestTimerStep == TimerStep /\ Len(timers) = 1

\* C18: once a success has set the progress record to complete, and as
\* long as no extraction begins, the record stays complete with progress
\* 100 until the timer that this success set comes due, and that step
\* clears it: nothing clears or changes it earlier.
C18_CompleteUntilOwnTimer ==
    [][(/\ uploadProgress # Null
        /\ uploadProgress[1].status = "complete"
        /\ ~ \E i \in DOMAIN calls : Began(i)) =>
          /\ uploadProgress[1].progress = 100
          /\ \/ uploadProgress' = uploadProgress /\ ~LatestTimerStep
             \/ uploadProgress' = Null /\ LatestTimerStep]_vars

\* C19: whenever some handleFileExtraction call has started and not yet
\* finished, the busy flag is true.
C19_BusyWhileInFlight == InFlightCalls # {} => isLoading

\* no upload is under way: every handleFile call has finished
Quiescent ==
    \A j \in DOMAIN calls : calls[j].pc \notin ({"preview"} \cup InFlightPcs)

\* C20: a failed extraction is not retried: the call stays failed, and
\* while its error is the latest outcome and no upload is under way, the
\* result list, the progress record and the busy flag change only when the
\* user drops a new file (or clearResults is called).
C20_NoRetryAfterFailure ==
    [][/\ \A i \in DOMAIN calls : calls[i].pc = "failed" => calls'[i].pc = "failed"
       /\ (/\ uploadProgress # Null
           /\ uploadProgress[1].status = "error"
           /\ Quiescent
           /\ ~Dropped
           /\ ~ClearedStep) => UNCHANGED <<extractedResults, uploadProgress, isLoading>>]_vars

\* the progress record shows a terminal outcome
TerminalRecord ==
    uploadProgress # Null /\ uploadProgress[1].status \in {"complete", "error"}

\* C21: once the progress record has status complete or error, no progress
\* tick and no other event turns it back to extracting or changes its
\* percent: only a new begin or the auto-clear timer changes it.
C21_TerminalRecordKept ==
    [][(/\ TerminalRecord
        /\ ~ \E i \in DOMAIN calls : Began(i)
        /\ ~TimerStep) => uploadProgress' = uploadProgress]_vars

\* C22: whenever the busy flag is true the progress record is present, has
\* status extracting, and carries the name of a file whose extraction is in
\* flight; a progress tick changes only the percent of the record.
C22_BusyHasExtractingRecord ==
    /\ isLoading =>
          /\ uploadProgress # Null
          /\ uploadProgress[1].status = "extracting"
          /\ \E i \in InFlightCalls : uploadProgress[1].fileName = calls[i].file.name
          /\ DOMAIN uploadProgress[1] = {"fileName", "progress", "status"}

\* C23: the progress record is absent or well-formed: progress is in
\* 0..100 and status is extracting, complete or error; complete goes with
\* progress 100 and no error message, error with progress 0 and an error
\* message, extracting with no error message.
C23_RecordWellFormed ==
    uploadProgress # Null =>
       /\ uploadProgress[1].progress \in 0..100
       /\ uploadProgress[1].status \in {"extracting", "complete", "error"}
       /\ uploadProgress[1].status = "complete" =>
             /\ uploadProgress[1].progress = 100
             /\ "error" \notin DOMAIN uploadProgress[1]
       /\ uploadProgress[1].status = "error" =>
             /\ uploadProgress[1].progress = 0
             /\ "error" \in DOMAIN uploadProgress[1]
       /\ uploadProgress[1].status = "extracting" =>
             "error" \notin DOMAIN uploadProgress[1]

\* C24: the result list changes only by a successful extraction, which
\* puts one new entry in front and keeps every earlier entry with all its
\* fields and in its order, or by clearResults, which empties it; no tick,
\* failure, timer or selection change modifies it.
C24_ResultsImmutable ==
    [][extractedResults' # extractedResults =>
          \/ /\ \E i \in DOMAIN calls : Succeeded(i)
             /\ Len(extractedResults') = Len(extractedResults) + 1
             /\ Tail(extractedResults') = extractedResults
          \/ /\ extractedResults' = <<>>
             /\ CallsStay
             /\ UNCHANGED <<uploadProgress, isLoading, timers>>]_vars

\* C24 witness: after a success a later extraction has failed and the
\* timer of the success has fired; the list still holds exactly the result
\* of the success.
C24_ResultOutlivesFailure ==
    /\ Len(calls) = 2
    /\ calls[1].pc = "success"
    /\ calls[2].pc = "failed"
    /\ timers = <<>>
    /\ Len(extractedResults) = 1
    /\ extractedResults[1].fileName = calls[1].file.name
    /\ extractedResults[1].extractedAt < calls[2].beganAt

\* call j is in flight and no extraction has succeeded since it began: a
\* selection made since then was made by a click
SelectedByClickDuring(j) ==
    /\ InFlight(j)
    /\ InFlightCalls = {j}
    /\ ActiveResult # Null
    /\ \A r \in DOMAIN extractedResults :
          extractedResults[r].extractedAt < calls[j].beganAt

\* C25: a result the user has selected by clicking stays the one shown
\* when an extraction completes in the background and prepends its result:
\* the selection neither moves to another entry nor to the newest one; ticks,
\* failures and timers leave the selection alone as well.
C25_ClickedSelectionKept ==
    [][/\ \A j \in DOMAIN calls :
             (SelectedByClickDuring(j) /\ Succeeded(j)) =>
                ActiveResultOf(extractedResults', activeResultIndex') = ActiveResult
       /\ (/\ ActiveResult # Null
           /\ extractedResults' = extractedResults
           /\ ~ \E i \in DOMAIN calls : Began(i)
           /\ ~Clicked
           /\ activeResultIndex' # Null) => activeResultIndex' = activeResultIndex]_vars

\* C26: the selection is none or an index into the result list.
C26_SelectionInRange ==
    activeResultIndex # Null => activeResultIndex[1] \in 0..(Len(extractedResults) - 1)

\* the text of each reference document, reconstructed by hand: fragments
\* joined in order, a line break before a fragment more than 5 away from
\* the one before it on the page, a blank line after each page, trimmed
ReferenceText ==
    (PdfA :> "Hello world\nBye\n\nEnd")
       @@ (PdfOne :> "Only\npage")
       @@ (PdfThree :> "One\n\n\n\nThree3")
       @@ (PdfEdges :> "AB\nC\nDE")
       @@ (PdfZero :> "x\ny\nz")
       @@ (PdfSpaces :> "Title \n\nbody")
       @@ (PdfBlank :> "")
       @@ (Doc(0) :> "")
       @@ (Doc(1) :> "a\nb")
       @@ (Doc(2) :> "a\nb\n\na\nb")

====
